---- MODULE Spec2Model ----
(***************************************************************************)
(* A model of LRU::Internal::BaseCache (include/lru/internal/base-cache.hpp)*)
(* : the hash index _cache, the recency sequence _order, the last-accessed  *)
(* slot _last_accessed and the capacity _capacity, with one action per      *)
(* public operation.                                                        *)
(*                                                                          *)
(* A std::list node is a record [id, key]; a list iterator is the id of the *)
(* node it designates, so that erasing a node leaves the other iterators    *)
(* valid.  A map iterator is the key of its entry, or End.                  *)
(*                                                                          *)
(* Two cache objects exist, this and other.  Each keeps the nodes of its     *)
(* containers in an arena of its own, so that a reference (a list iterator, *)
(* the last-accessed slot) tells whose node it designates.                  *)
(*                                                                          *)
(* A run is any sequence of calls.  The last call of a run may be observed: *)
(* op then holds its name, arguments and result and pre the cache before    *)
(* it, which is what the properties of single operations are stated on.     *)
(***************************************************************************)
EXTENDS Integers, Sequences, FiniteSets

\* ------------------------------------------------------------------ bounds
MaxValue == 2
MaxCapacity == 3
\* The calls counted while a statistics object is attached.
MaxEvents == 2
\* The width of size_t in bits; sizes and capacities stay far below 2^SizeBits.
SizeBits == 16

\* Keys are opaque: the cache only hashes and compares them.
Keys == {"a", "b", "c"}
Values == 1..MaxValue
\* The addresses of list nodes in the first arena: one per key that can be
\* stored, and one more for the node that a re-insert adds to the list of a
\* copy, whose old node is not in that list.
NodeIds == 1..(Cardinality(Keys) + 1)
\* The arenas: where the containers of the first and of the second cache
\* object allocate their nodes.
Arenas == {1, 2}
\* The addresses of list nodes in an arena.
ArenaNodes(arena) == {(arena - 1) * Cardinality(NodeIds) + n : n \in NodeIds}

\* The end iterator of the hash index (_cache.end()).
End == "end"
\* The last-accessed slot without a referent (after invalidate()).  A slot with
\* a referent is [key, arena]: the entry of key in the hash index that lives in
\* arena.
Invalid == [key |-> "invalid", arena |-> 0]

\* this and other are the two cache objects; calls counts the calls of
\* contains, lookup and find and the inserts of a present key made on this
\* since its statistics object was attached; inserted lists the keys present
\* in this by the time of their latest insert, the longest ago first; pre and
\* op describe the observed call.
VARIABLES this, other, calls, inserted, pre, op

vars == <<this, other, calls, inserted, pre, op>>

\* ------------------------------------------------------- std::list, std::map
NodeIdsOf(order) == {order[i].id : i \in DOMAIN order}

\* The address of a newly allocated list node: any address not in use; the
\* allocator's choice is fixed to the lowest free one.
FreshNode(arena, order) ==
    CHOOSE n \in ArenaNodes(arena) :
        /\ n \notin NodeIdsOf(order)
        /\ \A m \in ArenaNodes(arena) : m \notin NodeIdsOf(order) => n <= m

\* _order.erase(iterator)
ListErase(order, handle) == SelectSeq(order, LAMBDA n : n.id # handle)

\* _cache.emplace(key, Information(order, value)) of an absent key
MapEmplace(cache, key, info) ==
    [x \in (DOMAIN cache) \cup {key} |-> IF x = key THEN info ELSE cache[x]]

\* _cache.erase(iterator), _cache.erase(key)
MapErase(cache, key) == [x \in (DOMAIN cache) \ {key} |-> cache[x]]

EmptyMap == [x \in {} |-> x]

\* ------------------------------------------------------------ the cache
\* StatisticsMutator without a statistics object: not monitoring.
NoStatistics == [monitoring |-> FALSE, hits |-> 0, misses |-> 0, key |-> "none"]

\* BaseCache(capacity, hash, key_equal): the first cache object.
BaseCache(capacity) ==
    [_cache |-> EmptyMap,
     _order |-> <<>>,
     _stats |-> NoStatistics,
     _last_accessed |-> Invalid,
     _capacity |-> capacity,
     arena |-> 1,
     ub |-> FALSE]

\* BaseCache(capacity, hash, key_equal): the second cache object.
OtherCache(capacity) == [BaseCache(capacity) EXCEPT !.arena = 2]

\* size()
size(c) == Cardinality(DOMAIN c._cache)

\* is_full() comparing one entry early.
is_full_one_early(c) == size(c) + 1 = c._capacity

\* is_full()
is_full(c) == size(c) = c._capacity

\* is_empty()
is_empty(c) == size(c) = 0

\* _capacity - size() in size_t: the difference modulo 2^SizeBits.
SizeSub(a, b) == (a - b) % (2 ^ SizeBits)

\* space_left()
space_left(c) == SizeSub(c._capacity, size(c))

\* AbstractCache::space_left()
abstract_space_left(c) == SizeSub(c._capacity, size(c))

\* The keys of the recency sequence, oldest first.
OrderKeys(c) == [i \in DOMAIN c._order |-> c._order[i].key]

\* The outcome of a call: the cache after it and what it returned (nothing
\* when the program stopped in it).
Out(c, ret) == [c |-> c, ret |-> IF c.ub THEN <<>> ELSE ret]

\* --------------------------------------------------------- LastAccessed
\* _last_accessed == key, key == _last_accessed, _key_is_last_accessed(key):
\* the slot is valid and holds key.
LastAccessedIs(c, key) == c._last_accessed # Invalid /\ c._last_accessed.key = key

\* _last_accessed = iterator
LastAccessedAssign(c, iterator) ==
    [c EXCEPT !._last_accessed = [key |-> iterator, arena |-> c.arena]]

\* _last_accessed.invalidate()
LastAccessedInvalidate(c) == [c EXCEPT !._last_accessed = Invalid]

\* ----------------------------------------------------- StatisticsMutator
\* The statistics hook counts the events it receives by kind and holds the key
\* of the latest one.
\* is_monitoring(): _stats.has_statistics()
is_monitoring(c) == c._stats.monitoring

\* _stats.register_hit(key)
RegisterHit(stats, key) == [stats EXCEPT !.hits = @ + 1, !.key = key]

\* _stats.register_miss(key)
RegisterMiss(stats, key) == [stats EXCEPT !.misses = @ + 1, !.key = key]

\* _register_hit_if_monitoring(key)
_register_hit_if_monitoring(c, key) ==
    IF is_monitoring(c) THEN [c EXCEPT !._stats = RegisterHit(@, key)] ELSE c

\* _register_miss_if_monitoring(key)
_register_miss_if_monitoring(c, key) ==
    IF is_monitoring(c) THEN [c EXCEPT !._stats = RegisterMiss(@, key)] ELSE c

\* --------------------------------------------------- undefined behaviour
\* Undefined behaviour reached in cache state c (front() of an empty list, a
\* dereferenced end iterator): the build either stops the program there or
\* carries on with the containers as they were.
Undefined(c) == {[c EXCEPT !.ub = TRUE], c}

\* ------------------------------------------------------ protected methods
\* _cache.find(key): the entry's iterator, or End.
MapFind(c, key) == IF key \in DOMAIN c._cache THEN key ELSE End

\* _erase(MapConstIterator iterator) without _last_accessed.invalidate().
_erase_keeps_slot(c, iterator) ==
    IF iterator \notin DOMAIN c._cache
    THEN Undefined(c)
    ELSE {[c EXCEPT !._order = ListErase(@, c._cache[iterator].order),
                    !._cache = MapErase(@, iterator)]}

\* _erase(MapConstIterator iterator)
_erase(c, iterator) ==
    IF iterator \notin DOMAIN c._cache
    THEN Undefined(c)
    ELSE LET c1 == IF LastAccessedIs(c, iterator)
                   THEN LastAccessedInvalidate(c)
                   ELSE c
         IN  {[c1 EXCEPT !._order = ListErase(@, c._cache[iterator].order),
                         !._cache = MapErase(@, iterator)]}

\* _erase(key, information) without _order.erase(information.order).
_erase_information_keeps_node(c, key, information) ==
    LET c1 == IF LastAccessedIs(c, key)
              THEN LastAccessedInvalidate(c)
              ELSE c
    IN  {[c1 EXCEPT !._cache = MapErase(@, key)]}

\* _erase(const Key& key, const Information& information)
_erase_information(c, key, information) ==
    LET c1 == IF LastAccessedIs(c, key)
              THEN LastAccessedInvalidate(c)
              ELSE c
    IN  {[c1 EXCEPT !._order = ListErase(@, information.order),
                    !._cache = MapErase(@, key)]}

\* _erase_lru(): _erase(_cache.find(_order.front()))
_erase_lru(c) ==
    IF c._order = <<>>
    THEN Undefined(c)
    ELSE _erase(c, MapFind(c, Head(c._order).key))

\* _move_to_front without iterator->second.order = new_order.
_move_to_front_stale_handle(c, iterator, new_value) ==
    LET order1 == ListErase(c._order, c._cache[iterator].order)
        new_order == FreshNode(c.arena, order1)
        order2 == Append(order1, [id |-> new_order, key |-> iterator])
    IN  LastAccessedAssign(
            [c EXCEPT !._order = order2,
                      !._cache[iterator].value = new_value],
            iterator)

\* _move_to_front without iterator->second.value = new_value.
_move_to_front_keeps_value(c, iterator, new_value) ==
    LET order1 == ListErase(c._order, c._cache[iterator].order)
        new_order == FreshNode(c.arena, order1)
        order2 == Append(order1, [id |-> new_order, key |-> iterator])
    IN  LastAccessedAssign(
            [c EXCEPT !._order = order2,
                      !._cache[iterator].order = new_order],
            iterator)

\* _move_to_front storing the value and leaving the node where it is.
_move_to_front_in_place(c, iterator, new_value) ==
    LastAccessedAssign([c EXCEPT !._cache[iterator].value = new_value], iterator)

\* _move_to_front(MapIterator iterator, const Value& new_value)
_move_to_front(c, iterator, new_value) ==
    LET order1 == ListErase(c._order, c._cache[iterator].order)
        new_order == FreshNode(c.arena, order1)
        order2 == Append(order1, [id |-> new_order, key |-> iterator])
    IN  LastAccessedAssign(
            [c EXCEPT !._order = order2,
                      !._cache[iterator] = [order |-> new_order, value |-> new_value]],
            iterator)

\* _value_for_last_accessed(): _last_accessed.value().value
_value_for_last_accessed(c) == c._cache[c._last_accessed.key].value

\* --------------------------------------------------------- public methods
\* find(key), pure virtual in BaseCache: probes the hash index; a hit is
\* registered and sets the last-accessed slot, a miss is registered; the
\* recency sequence is left alone.  Returns <<it>>.
find(c, key) ==
    IF key \in DOMAIN c._cache
    THEN {Out(LastAccessedAssign(_register_hit_if_monitoring(c, key), key), <<key>>)}
    ELSE {Out(_register_miss_if_monitoring(c, key), <<End>>)}

\* contains(key) promoting the entry it finds, as a read-refreshing cache would.
contains_promoting(c, key) ==
    IF LastAccessedIs(c, key)
    THEN {Out(c, <<TRUE>>)}
    ELSE {IF r.ret[1] # End
          THEN Out(_move_to_front(r.c, r.ret[1], r.c._cache[r.ret[1]].value), <<TRUE>>)
          ELSE Out(r.c, <<FALSE>>) : r \in find(c, key)}

\* contains(key) registering nothing on the fast path.
contains_silent_fast_path(c, key) ==
    IF LastAccessedIs(c, key)
    THEN {Out(c, <<TRUE>>)}
    ELSE {IF r.ret[1] # End
          THEN Out(LastAccessedAssign(r.c, r.ret[1]), <<TRUE>>)
          ELSE Out(r.c, <<FALSE>>) : r \in find(c, key)}

\* contains(key) taking the fast path whenever the slot is valid, without
\* comparing its key.
contains_any_key_fast(c, key) ==
    IF c._last_accessed # Invalid
    THEN {Out(_register_hit_if_monitoring(c, key), <<TRUE>>)}
    ELSE {IF r.ret[1] # End
          THEN Out(LastAccessedAssign(r.c, r.ret[1]), <<TRUE>>)
          ELSE Out(r.c, <<FALSE>>) : r \in find(c, key)}

\* contains(key).  Returns <<found>>.
contains(c, key) ==
    IF LastAccessedIs(c, key)
    THEN {Out(_register_hit_if_monitoring(c, key), <<TRUE>>)}
    ELSE {IF r.ret[1] # End
          THEN Out(LastAccessedAssign(r.c, r.ret[1]), <<TRUE>>)
          ELSE Out(r.c, <<FALSE>>) : r \in find(c, key)}

\* lookup(key) taking the fast path whenever the slot is valid, without
\* comparing its key.
lookup_any_key_fast(c, key) ==
    IF c._last_accessed # Invalid
    THEN {Out(_register_hit_if_monitoring(c, key),
              <<"value", _value_for_last_accessed(c)>>)}
    ELSE {IF r.ret[1] = End
          THEN Out(r.c, <<"KeyNotFound">>)
          ELSE Out(r.c, <<"value", r.c._cache[r.ret[1]].value>>) : r \in find(c, key)}

\* lookup(key).  Returns <<"value", v>>, or <<"KeyNotFound">> when it throws.
lookup(c, key) ==
    IF LastAccessedIs(c, key)
    THEN {Out(_register_hit_if_monitoring(c, key),
              <<"value", _value_for_last_accessed(c)>>)}
    ELSE {IF r.ret[1] = End
          THEN Out(r.c, <<"KeyNotFound">>)
          ELSE Out(r.c, <<"value", r.c._cache[r.ret[1]].value>>) : r \in find(c, key)}

\* insert(key, value).  Returns <<inserted, iterator>>.
insert(c, key, value) ==
    LET iterator == MapFind(c, key)
    IN  IF iterator = End
        THEN LET after == IF is_full(c) THEN _erase_lru(c) ELSE {c}
             IN  {IF c1.ub
                  THEN Out(c1, <<>>)
                  ELSE LET order == FreshNode(c1.arena, c1._order)
                           c2 == [c1 EXCEPT
                                    !._order = Append(@, [id |-> order, key |-> key]),
                                    !._cache = MapEmplace(@, key,
                                                 [order |-> order, value |-> value])]
                       IN  Out(LastAccessedAssign(c2, key), <<TRUE, key>>)
                  : c1 \in after}
        ELSE {Out(_move_to_front(c, iterator, value), <<FALSE, iterator>>)}

\* erase(const Key& key).  Returns <<erased>>.
erase(c, key) ==
    IF LastAccessedIs(c, key)
    THEN {Out(c1, <<TRUE>>) :
            c1 \in _erase_information(c, c._last_accessed.key,
                                     c._cache[c._last_accessed.key])}
    ELSE LET iterator == MapFind(c, key)
         IN  IF iterator # End
             THEN {Out(c1, <<TRUE>>) : c1 \in _erase(c, iterator)}
             ELSE {Out(c, <<FALSE>>)}

\* erase(UnorderedConstIterator iterator).  Returns <<erased>>.
erase_unordered(c, iterator) ==
    IF iterator # End
    THEN {Out(c1, <<TRUE>>) : c1 \in _erase(c, iterator)}
    ELSE {Out(c, <<FALSE>>)}

\* erase(OrderedConstIterator iterator): _erase(_cache.find(iterator.key()))
erase_ordered(c, iterator) ==
    IF iterator # End
    THEN {Out(c1, <<TRUE>>) : c1 \in _erase(c, MapFind(c, iterator))}
    ELSE {Out(c, <<FALSE>>)}

\* clear() without _last_accessed.invalidate().
clear_keeps_slot(c) ==
    {Out([c EXCEPT !._cache = EmptyMap, !._order = <<>>], <<>>)}

\* clear()
clear(c) ==
    {Out(LastAccessedInvalidate([c EXCEPT !._cache = EmptyMap, !._order = <<>>]), <<>>)}

\* while (size() > n) { _erase_lru(); }: the caches the loop can end with.  An
\* iteration that removes nothing repeats for ever, and the call never returns.
RECURSIVE EraseLruWhile(_, _)
EraseLruWhile(c, n) ==
    IF c.ub \/ ~(size(c) > n)
    THEN {c}
    ELSE UNION {IF c1 = c THEN {} ELSE EraseLruWhile(c1, n) : c1 \in _erase_lru(c)}

\* shrink(new_size) with the loop running while (size() >= new_size).
shrink_one_more(c, new_size) ==
    IF new_size >= size(c)
    THEN {Out(c, <<>>)}
    ELSE IF new_size = 0
         THEN clear(c)
         ELSE {Out(c1, <<>>) : c1 \in EraseLruWhile(c, new_size - 1)}

\* shrink(new_size)
shrink(c, new_size) ==
    IF new_size >= size(c)
    THEN {Out(c, <<>>)}
    ELSE IF new_size = 0
         THEN clear(c)
         ELSE {Out(c1, <<>>) : c1 \in EraseLruWhile(c, new_size)}

\* capacity(new_capacity) without the eviction loop.
capacity_without_eviction(c, new_capacity) ==
    {Out([c EXCEPT !._capacity = new_capacity], <<>>)}

\* capacity(new_capacity)
capacity(c, new_capacity) ==
    {Out(IF c1.ub THEN c1 ELSE [c1 EXCEPT !._capacity = new_capacity], <<>>) :
        c1 \in EraseLruWhile(c, new_capacity)}

\* Information::operator==: the values are equal; the recency handles are not
\* compared.
InformationEquals(a, b) == a.value = b.value

\* _cache == other._cache (std::unordered_map): the same keys, with equal
\* Information.
MapEquals(a, b) ==
    /\ DOMAIN a = DOMAIN b
    /\ \A k \in DOMAIN a : InformationEquals(a[k], b[k])

\* _order == other._order (std::list<Key>): the same keys in the same order.
ListEquals(a, b) ==
    /\ Len(a) = Len(b)
    /\ \A i \in DOMAIN a : a[i].key = b[i].key

\* operator== without the comparison of _order.
equals_ignoring_order(c, o, same) ==
    IF same
    THEN {Out(c, <<TRUE>>)}
    ELSE IF ~MapEquals(c._cache, o._cache)
         THEN {Out(c, <<FALSE>>)}
         ELSE {Out(c, <<TRUE>>)}

\* operator==(other); same: other is this object (this == &other).
\* Returns <<equal>>.
equals(c, o, same) ==
    IF same
    THEN {Out(c, <<TRUE>>)}
    ELSE IF ~MapEquals(c._cache, o._cache)
         THEN {Out(c, <<FALSE>>)}
         ELSE IF ~ListEquals(c._order, o._order)
              THEN {Out(c, <<FALSE>>)}
              ELSE {Out(c, <<TRUE>>)}

\* swap(other) without swap(_last_accessed, other._last_accessed).
swap_keeps_slots(c, o) ==
    <<[c EXCEPT !._order = o._order,
                !._cache = o._cache,
                !.arena = o.arena,
                !._capacity = o._capacity],
      [o EXCEPT !._order = c._order,
                !._cache = c._cache,
                !.arena = c.arena,
                !._capacity = c._capacity]>>

\* swap(other): the two objects after it, <<this, other>>.  The containers
\* take their nodes along, so the arenas go with them; _stats stays.
swap(c, o) ==
    <<[c EXCEPT !._order = o._order,
                !._cache = o._cache,
                !.arena = o.arena,
                !._last_accessed = o._last_accessed,
                !._capacity = o._capacity],
      [o EXCEPT !._order = c._order,
                !._cache = c._cache,
                !.arena = c.arena,
                !._last_accessed = c._last_accessed,
                !._capacity = c._capacity]>>

\* The copy of a std::list: new nodes, in arena, with the keys in their order.
ListCopy(order, arena) ==
    [i \in DOMAIN order |->
        [id |-> (arena - 1) * Cardinality(NodeIds) + i, key |-> order[i].key]]

\* The defaulted BaseCache(const BaseCache&) and operator=(const BaseCache&):
\* the object with containers in arena that is the member-wise copy of c.  The
\* entries and the slot are copied as they are, references included.
MemberwiseCopy(c, arena) ==
    [_cache |-> c._cache,
     _order |-> ListCopy(c._order, arena),
     _stats |-> c._stats,
     _last_accessed |-> c._last_accessed,
     _capacity |-> c._capacity,
     arena |-> arena,
     ub |-> FALSE]

\* monitor(args...) that starts the measurement with the slot invalidated.
monitor_cold_start(c) ==
    {Out(LastAccessedInvalidate(
            [c EXCEPT !._stats = [NoStatistics EXCEPT !.monitoring = TRUE]]), <<>>)}

\* monitor(args...): _stats = Statistics<Key>(args...)
monitor(c) ==
    {Out([c EXCEPT !._stats = [NoStatistics EXCEPT !.monitoring = TRUE]], <<>>)}

\* stop_monitoring(): _stats.reset()
stop_monitoring(c) == {Out([c EXCEPT !._stats = NoStatistics], <<>>)}

\* The outcomes of a call on cache c.
Apply(name, args, c) ==
    CASE name = "insert" -> insert(c, args[1], args[2])
      [] name = "contains" -> contains(c, args[1])
      [] name = "lookup" -> lookup(c, args[1])
      [] name = "find" -> find(c, args[1])
      [] name = "erase" -> erase(c, args[1])
      [] name = "clear" -> clear(c)
      [] name = "monitor" -> {Out(c, <<>>)}
      [] name = "stop_monitoring" -> {Out(c, <<>>)}

\* ------------------------------------------------------------- the system
NoOp == [name |-> "none", args |-> <<>>, ret |-> <<>>]

Init ==
    /\ \E cap \in 0..MaxCapacity : this = BaseCache(cap)
    /\ other = OtherCache(0)
    /\ calls = 0
    /\ inserted = <<>>
    /\ pre = BaseCache(0)
    /\ op = NoOp

\* The keys by the time of their latest insert after a call with outcome o:
\* an insert that returned makes its key the latest, and the keys that are no
\* longer present are dropped.
InsertedAfter(name, args, o) ==
    LET latest == IF name = "insert" /\ ~o.c.ub
                  THEN Append(SelectSeq(inserted, LAMBDA k : k # args[1]), args[1])
                  ELSE inserted
    IN  SelectSeq(latest, LAMBDA k : k \in DOMAIN o.c._cache)

\* The calls that calls counts.
Counted(name, args) ==
    /\ is_monitoring(this)
    /\ \/ name \in {"contains", "lookup", "find"}
       \/ name = "insert" /\ args[1] \in DOMAIN this._cache

\* One call of a public method of this on a live program: outs are its
\* outcomes.
Call(name, args, outs) ==
    /\ ~this.ub
    /\ op = NoOp
    /\ UNCHANGED other
    /\ IF Counted(name, args)
       THEN calls < MaxEvents /\ calls' = calls + 1
       ELSE UNCHANGED calls
    /\ \E o \in outs :
        /\ this' = o.c
        /\ inserted' = InsertedAfter(name, args, o)
        /\ \/ UNCHANGED <<pre, op>>
           \/ /\ pre' = this
              /\ op' = [name |-> name, args |-> args, ret |-> o.ret]

Insert == \E k \in Keys, v \in Values : Call("insert", <<k, v>>, insert(this, k, v))

Contains == \E k \in Keys : Call("contains", <<k>>, contains(this, k))

Lookup == \E k \in Keys : Call("lookup", <<k>>, lookup(this, k))

Find == \E k \in Keys : Call("find", <<k>>, find(this, k))

Erase == \E k \in Keys : Call("erase", <<k>>, erase(this, k))

\* The iterators a caller holds: to a present entry, the end iterator, or an
\* expired iterator, to the entry that a key had before it was removed (the
\* cache may have held any key and lost it again before it got to state c).
Iterators(c) == Keys \cup {End}

EraseUnordered ==
    \E i \in Iterators(this) : Call("erase_unordered", <<i>>, erase_unordered(this, i))

EraseOrdered ==
    \E i \in Iterators(this) : Call("erase_ordered", <<i>>, erase_ordered(this, i))

Clear == Call("clear", <<>>, clear(this))

Shrink == \E n \in 0..MaxCapacity : Call("shrink", <<n>>, shrink(this, n))

Capacity == \E n \in 0..MaxCapacity : Call("capacity", <<n>>, capacity(this, n))

Next ==
    \/ Insert
    \/ Contains
    \/ Lookup
    \/ Find
    \/ Erase
    \/ EraseUnordered
    \/ EraseOrdered
    \/ Clear
    \/ Shrink
    \/ Capacity

Spec == Init /\ [][Next]_vars

\* ---------------------------------------------------------- AbstractCache
\* LRU::AbstractCache (include/lru/internal/abstract-cache.hpp) has the same
\* members but no statistics object; its contains, find and insert are pure
\* virtual.
\* AbstractCache(size_t capacity)
AbstractCache(n) == BaseCache(n)

\* The slot holds the iterator of an entry that is no longer in _cache.
SlotIsStale(c) ==
    c._last_accessed # Invalid /\ c._last_accessed.key \notin DOMAIN c._cache

\* AbstractCache::_erase(MapIterator iterator)
abstract_erase_iterator(c, iterator) ==
    IF iterator \notin DOMAIN c._cache
    THEN Undefined(c)
    ELSE LET c1 == IF LastAccessedIs(c, iterator)
                   THEN LastAccessedInvalidate(c)
                   ELSE c
         IN  {[c1 EXCEPT !._order = ListErase(@, c._cache[iterator].order),
                         !._cache = MapErase(@, iterator)]}

\* AbstractCache::_erase_lru(): _order.pop_front(), _cache.erase(lru)
abstract_erase_lru(c) ==
    IF c._order = <<>>
    THEN Undefined(c)
    ELSE {[c EXCEPT !._order = Tail(@),
                    !._cache = MapErase(@, Head(c._order).key)]}

\* AbstractCache::is_full()
abstract_is_full(c) == size(c) = c._capacity

\* AbstractCache::erase(key).  _last_accessed == key reads the key through
\* the slot's iterator, which is undefined once its entry is gone.
abstract_erase(c, key) ==
    IF SlotIsStale(c)
    THEN {Out(c1, <<>>) : c1 \in Undefined(c)}
    ELSE LET first == IF LastAccessedIs(c, key)
                      THEN abstract_erase_iterator(c, c._last_accessed.key)
                      ELSE {c}
         IN  UNION {IF c1.ub \/ MapFind(c1, key) = End
                    THEN {Out(c1, <<>>)}
                    ELSE {Out(c2, <<>>) :
                            c2 \in abstract_erase_iterator(c1, MapFind(c1, key))}
                    : c1 \in first}

\* AbstractCache::clear()
abstract_clear(c) == {Out([c EXCEPT !._cache = EmptyMap, !._order = <<>>], <<>>)}

\* contains(key), pure virtual in AbstractCache: the slot first, then the
\* hash index; a hit sets the slot.  Returns <<found>>.
abstract_contains(c, key) ==
    IF SlotIsStale(c)
    THEN {Out(c1, <<TRUE>>) : c1 \in Undefined(c)}
    ELSE IF LastAccessedIs(c, key)
         THEN {Out(c, <<TRUE>>)}
         ELSE IF MapFind(c, key) # End
              THEN {Out(LastAccessedAssign(c, key), <<TRUE>>)}
              ELSE {Out(c, <<FALSE>>)}

\* insert(key, value), pure virtual in AbstractCache: a new key evicts with
\* _erase_lru() when the cache is full and is appended; a present key is moved
\* to the newest end with the new value; the slot is set to the entry.
abstract_insert(c, key, value) ==
    IF MapFind(c, key) = End
    THEN {IF c1.ub
          THEN Out(c1, <<>>)
          ELSE LET order == FreshNode(c1.arena, c1._order)
               IN  Out(LastAccessedAssign(
                           [c1 EXCEPT
                              !._order = Append(@, [id |-> order, key |-> key]),
                              !._cache = MapEmplace(@, key,
                                           [order |-> order, value |-> value])],
                           key),
                       <<value>>)
          : c1 \in IF abstract_is_full(c) THEN abstract_erase_lru(c) ELSE {c}}
    ELSE {Out(_move_to_front(c, key, value), <<value>>)}

InitAbstract ==
    /\ \E cap \in 0..MaxCapacity : this = AbstractCache(cap)
    /\ other = OtherCache(0)
    /\ calls = 0
    /\ inserted = <<>>
    /\ pre = BaseCache(0)
    /\ op = NoOp

AbstractInsert ==
    \E k \in Keys, v \in Values :
        Call("insert", <<k, v>>, abstract_insert(this, k, v))

AbstractContains == \E k \in Keys : Call("contains", <<k>>, abstract_contains(this, k))

AbstractErase == \E k \in Keys : Call("erase", <<k>>, abstract_erase(this, k))

AbstractClear == Call("clear", <<>>, abstract_clear(this))

\* _erase_lru() called by a derived class.
AbstractEraseLru ==
    Call("_erase_lru", <<>>, {Out(c, <<>>) : c \in abstract_erase_lru(this)})

NextAbstract ==
    \/ AbstractInsert
    \/ AbstractContains
    \/ AbstractErase
    \/ AbstractClear
    \/ AbstractEraseLru

SpecAbstract == InitAbstract /\ [][NextAbstract]_vars

\* ------------------------------------------------------------- statistics
\* A capacity below the number of keys, so that inserts evict.
StatsCapacity == Cardinality(Keys) - 1

InitStats ==
    /\ this = BaseCache(StatsCapacity)
    /\ other = OtherCache(0)
    /\ calls = 0
    /\ inserted = <<>>
    /\ pre = BaseCache(0)
    /\ op = NoOp

\* monitor() and stop_monitoring() start the count of calls again.
StatsCall(name, outs) ==
    /\ ~this.ub
    /\ op = NoOp
    /\ UNCHANGED other
    /\ calls' = 0
    /\ UNCHANGED inserted
    /\ \E o \in outs :
        /\ this' = o.c
        /\ \/ UNCHANGED <<pre, op>>
           \/ /\ pre' = this
              /\ op' = [name |-> name, args |-> <<>>, ret |-> o.ret]

Monitor == StatsCall("monitor", monitor(this))

StopMonitoring == StatsCall("stop_monitoring", stop_monitoring(this))

NextStats ==
    \/ Insert
    \/ Contains
    \/ Lookup
    \/ Find
    \/ Erase
    \/ Clear
    \/ Monitor
    \/ StopMonitoring

SpecStats == InitStats /\ [][NextStats]_vars

\* ------------------------------------------------------- two cache objects
\* The cache after a call that has one outcome.
Only(outs) == (CHOOSE o \in outs : TRUE).c

\* The sequences of pairs with distinct keys.
Inputs ==
    UNION {{s \in [1..n -> Keys \X Values] :
                \A i, j \in 1..n : s[i][1] = s[j][1] => i = j} :
           n \in 0..Cardinality(Keys)}

\* The cache after the inserts of a sequence of pairs.
RECURSIVE Build(_, _)
Build(c, pairs) ==
    IF pairs = <<>>
    THEN c
    ELSE Build(Only(insert(c, Head(pairs)[1], Head(pairs)[2])), Tail(pairs))

\* What a caller does to this after filling it: nothing, or capacity(size()),
\* monitor() and contains() of the oldest key.
Variations == {"nothing", "used"}

Vary(c, variation) ==
    IF variation = "nothing" \/ c._order = <<>>
    THEN c
    ELSE Only(contains(Only(monitor(Only(capacity(c, size(c))))),
                       Head(c._order).key))

\* Two caches filled by their callers, with room for all keys.
InitPair ==
    /\ \E s \in Inputs, v \in Variations :
            this = Vary(Build(BaseCache(MaxCapacity), s), v)
    /\ \E s \in Inputs : other = Build(OtherCache(MaxCapacity), s)
    /\ calls = 0
    /\ inserted = <<>>
    /\ pre = BaseCache(0)
    /\ op = NoOp

\* One observed call on the two objects: this and other after it; the
\* arguments start with other as it was before the call.
PairCall(name, args, ret, this1, other1) ==
    /\ op = NoOp
    /\ this' = this1
    /\ other' = other1
    /\ UNCHANGED <<calls, inserted>>
    /\ pre' = this
    /\ op' = [name |-> name, args |-> <<other>> \o args, ret |-> ret]

\* this == other, this == this
Equal ==
    \E same \in BOOLEAN :
        \E o \in equals(this, IF same THEN this ELSE other, same) :
            PairCall("equals", <<same>>, o.ret, o.c, other)

\* this.swap(other)
Swap == PairCall("swap", <<>>, <<>>, swap(this, other)[1], swap(this, other)[2])

\* BaseCache other(this): other is constructed as the copy.
CopyConstruct ==
    PairCall("copy_construct", <<>>, <<>>, this,
             MemberwiseCopy(this, CHOOSE a \in Arenas : a # this.arena))

\* other = this
CopyAssign ==
    PairCall("copy_assign", <<>>, <<>>, this, MemberwiseCopy(this, other.arena))

NextPair ==
    \/ Equal
    \/ Swap
    \/ CopyConstruct
    \/ CopyAssign

SpecPair == InitPair /\ [][NextPair]_vars

\* --------------------------------------------------------- a cache copied
\* The recency handles held by the entries of a cache.
Handles(c) == {c._cache[k].order : k \in DOMAIN c._cache}

\* The handles that a call with outcome o on cache c passed to _order.erase
\* and that designate no node of c's own list.
ForeignErased(c, o) == (Handles(c) \ Handles(o.c)) \ NodeIdsOf(c._order)

\* A call on a copy whose entries hold the handles of the source's nodes.
\* _order.erase(handle) with the iterator of another list is undefined: the
\* program stops, or the node is unlinked from the list it is in, the
\* source's, and the call goes on.  The outcomes are [copy, source, ret].
OnCopy(name, args, copy, source) ==
    UNION {IF ForeignErased(copy, o) = {}
           THEN {[copy |-> o.c, source |-> source, ret |-> o.ret]}
           ELSE {[copy |-> [copy EXCEPT !.ub = TRUE], source |-> source,
                  ret |-> <<>>],
                 [copy |-> o.c,
                  source |-> [source EXCEPT !._order =
                                SelectSeq(@, LAMBDA n :
                                    n.id \notin ForeignErased(copy, o))],
                  ret |-> o.ret]}
           : o \in Apply(name, args, copy)}

\* A cache filled and used by its caller; no copy of it yet.
InitCopy ==
    /\ \E s \in Inputs, v \in Variations :
            this = Vary(Build(BaseCache(MaxCapacity), s), v)
    /\ other = OtherCache(0)
    /\ calls = 0
    /\ inserted = <<>>
    /\ pre = BaseCache(0)
    /\ op = NoOp

\* BaseCache other(this), or other = this
Copy ==
    /\ op = NoOp
    /\ other = OtherCache(0)
    /\ other' = MemberwiseCopy(this, other.arena)
    /\ UNCHANGED <<this, calls, inserted, pre, op>>

\* One observed call on the copy.
CopyCall(name, args) ==
    /\ op = NoOp
    /\ other # OtherCache(0)
    /\ ~other.ub
    /\ \E o \in OnCopy(name, args, other, this) :
            PairCall(name, args, o.ret, o.source, o.copy)

CopyInsert == \E k \in Keys, v \in Values : CopyCall("insert", <<k, v>>)

CopyErase == \E k \in Keys : CopyCall("erase", <<k>>)

CopyClear == CopyCall("clear", <<>>)

\* One observed call on the source after the copy was made.
SourceCall ==
    /\ op = NoOp
    /\ other # OtherCache(0)
    /\ \E name \in {"insert", "erase", "clear"} :
       \E k \in Keys, v \in Values :
       \E o \in Apply(name, <<k, v>>, this) :
            PairCall("source", <<name, k, v>>, o.ret, o.c, other)

NextCopy ==
    \/ Copy
    \/ CopyInsert
    \/ CopyErase
    \/ CopyClear
    \/ SourceCall

SpecCopy == InitCopy /\ [][NextCopy]_vars

\* ------------------------------------------- the cache without the slot
\* The methods that consult the last-accessed slot, with the fast path taken
\* out: each goes to the hash index on every call.

\* contains(key) from its find(key) on.
probe_contains(c, key) ==
    {IF r.ret[1] # End
     THEN Out(r.c, <<TRUE>>)
     ELSE Out(r.c, <<FALSE>>) : r \in find(c, key)}

\* lookup(key) from its find(key) on.
probe_lookup(c, key) ==
    {IF r.ret[1] = End
     THEN Out(r.c, <<"KeyNotFound">>)
     ELSE Out(r.c, <<"value", r.c._cache[r.ret[1]].value>>) : r \in find(c, key)}

\* erase(key) from its _cache.find(key) on.
probe_erase(c, key) ==
    LET iterator == MapFind(c, key)
    IN  IF iterator # End
        THEN {Out(c1, <<TRUE>>) : c1 \in _erase(c, iterator)}
        ELSE {Out(c, <<FALSE>>)}

\* The outcomes of a call on a cache that has no slot: the slot of c is set
\* aside and the three methods above stand in for those that read it.
Reference(name, args, c) ==
    LET r == LastAccessedInvalidate(c)
    IN  CASE name = "insert" -> insert(r, args[1], args[2])
          [] name = "contains" -> probe_contains(r, args[1])
          [] name = "lookup" -> probe_lookup(r, args[1])
          [] name = "erase" -> probe_erase(r, args[1])
          [] name = "clear" -> clear(r)
          [] name = "shrink" -> shrink(r, args[1])
          [] name = "capacity" -> capacity(r, args[1])

\* The outcomes of the same call on the cache with its slot.
WithSlot(name, args, c) ==
    CASE name = "insert" -> insert(c, args[1], args[2])
      [] name = "contains" -> contains(c, args[1])
      [] name = "lookup" -> lookup(c, args[1])
      [] name = "erase" -> erase(c, args[1])
      [] name = "clear" -> clear(c)
      [] name = "shrink" -> shrink(c, args[1])
      [] name = "capacity" -> capacity(c, args[1])

\* What a caller can tell of an outcome: what the call returned, and the
\* contents, recency order, size and capacity it left.
Visible(o) ==
    [ret |-> o.ret,
     stopped |-> o.c.ub,
     contents |-> [k \in DOMAIN o.c._cache |-> o.c._cache[k].value],
     order |-> OrderKeys(o.c),
     size |-> size(o.c),
     capacity |-> o.c._capacity]

\* ------------------------------------------------------------ properties
\* The stored values by key.
ValuesOf(c) == [k \in DOMAIN c._cache |-> c._cache[k].value]

\* A sequence of keys without key k, the others in their order.
Without(keys, k) == SelectSeq(keys, LAMBDA x : x # k)

\* The n newest elements of a sequence, in their order.
Newest(keys, n) == SubSeq(keys, Len(keys) - n + 1, Len(keys))

\* A function restricted to the keys of a sequence.
Restrict(f, keys) == [k \in {keys[i] : i \in DOMAIN keys} |-> f[k]]

\* The observed call is a call of method name that returned.
Observed(name) == op.name = name /\ ~this.ub

\* C1: after every operation, from a cache constructed with any capacity >= 0,
\* size() <= capacity().
C1_SizeAtMostCapacity == size(this) <= this._capacity

\* C2: the hash index and the recency sequence hold the same keys, the
\* sequence holds no key twice, each entry's recency handle designates the
\* node of its own key, and so both have the same size.
C2_IndexMatchesSequence ==
    /\ {this._order[i].key : i \in DOMAIN this._order} = DOMAIN this._cache
    /\ \A i, j \in DOMAIN this._order :
          (this._order[i].key = this._order[j].key
             \/ this._order[i].id = this._order[j].id) => i = j
    /\ \A k \in DOMAIN this._cache :
          \E i \in DOMAIN this._order :
              this._order[i] = [id |-> this._cache[k].order, key |-> k]
    /\ Len(this._order) = size(this)

\* A re-insert of the oldest of three entries has been observed.
C2_Witness ==
    /\ Observed("insert")
    /\ size(pre) = 3
    /\ op.ret[1] = FALSE
    /\ Head(OrderKeys(pre)) = op.args[1]

\* C3: insert(key, value) of an absent key when size == capacity removes
\* exactly the front entry of the recency sequence from both structures, adds
\* key at the newest end, keeps the size and reports "inserted".
C3_InsertWhenFullEvictsFront ==
    (op.name = "insert" /\ op.args[1] \notin DOMAIN pre._cache /\ is_full(pre))
    => /\ ~this.ub
       /\ op.ret = <<TRUE, op.args[1]>>
       /\ pre._order # <<>>
       /\ OrderKeys(this) = Append(Tail(OrderKeys(pre)), op.args[1])
       /\ DOMAIN this._cache =
             (DOMAIN pre._cache \ {Head(OrderKeys(pre))}) \cup {op.args[1]}
       /\ \A k \in DOMAIN this._cache :
             ValuesOf(this)[k] = IF k = op.args[1] THEN op.args[2] ELSE ValuesOf(pre)[k]
       /\ size(this) = size(pre)

\* C4: insert(key, value) of an absent key when size < capacity adds one entry,
\* removes none, keeps the order of the existing keys, places key at the
\* newest end with the given value and reports "inserted".
C4_InsertWithRoom ==
    (op.name = "insert" /\ op.args[1] \notin DOMAIN pre._cache
                        /\ size(pre) < pre._capacity)
    => /\ ~this.ub
       /\ op.ret = <<TRUE, op.args[1]>>
       /\ size(this) = size(pre) + 1
       /\ OrderKeys(this) = Append(OrderKeys(pre), op.args[1])
       /\ DOMAIN this._cache = DOMAIN pre._cache \cup {op.args[1]}
       /\ \A k \in DOMAIN this._cache :
             ValuesOf(this)[k] = IF k = op.args[1] THEN op.args[2] ELSE ValuesOf(pre)[k]

\* An insert of a third key into a cache of capacity 3 has been observed.
C4_Witness ==
    /\ Observed("insert")
    /\ op.args[1] \notin DOMAIN pre._cache
    /\ size(pre) = 2
    /\ pre._capacity = 3
    /\ size(this) = 3

C6_LookupsKeepOrder ==
    op.name \in {"contains", "lookup", "find"}
    => /\ ~this.ub
       /\ this._order = pre._order
       /\ this._cache = pre._cache
       /\ size(this) = size(pre)
       /\ this._capacity = pre._capacity

\* A contains() of the oldest of three keys, served by the hash index and
\* changing the last-accessed slot, has been observed.
C6_Witness ==
    /\ Observed("contains")
    /\ size(pre) = 3
    /\ Head(OrderKeys(pre)) = op.args[1]
    /\ ~LastAccessedIs(pre, op.args[1])
    /\ LastAccessedIs(this, op.args[1])
    /\ op.ret = <<TRUE>>

\* C7: erase(key) of an absent key returns false and changes nothing;
\* erase(key) of a present key returns true and removes exactly that key from
\* both structures, keeping the order of the others, whether or not key is
\* the last-accessed one.
C7_EraseByKey ==
    op.name = "erase"
    => /\ ~this.ub
       /\ op.args[1] \notin DOMAIN pre._cache
            => /\ op.ret = <<FALSE>>
               /\ this._cache = pre._cache
               /\ this._order = pre._order
               /\ this._capacity = pre._capacity
       /\ op.args[1] \in DOMAIN pre._cache
            => /\ op.ret = <<TRUE>>
               /\ DOMAIN this._cache = DOMAIN pre._cache \ {op.args[1]}
               /\ OrderKeys(this) = Without(OrderKeys(pre), op.args[1])
               /\ ValuesOf(this) = Restrict(ValuesOf(pre), OrderKeys(this))
               /\ size(this) = size(pre) - 1
               /\ this._capacity = pre._capacity

\* An erase of the middle key of three, which was the last-accessed key, has
\* been observed.
C7_Witness ==
    /\ Observed("erase")
    /\ size(pre) = 3
    /\ OrderKeys(pre)[2] = op.args[1]
    /\ LastAccessedIs(pre, op.args[1])
    /\ op.ret = <<TRUE>>

\* C8: shrink(n) with 0 < n < size leaves exactly the n newest entries, in
\* their order and with their values; with n >= size it changes nothing;
\* shrink(0) of a non-empty cache has the effect of clear(); the capacity is
\* unchanged in every case.
C8_Shrink ==
    op.name = "shrink"
    => /\ ~this.ub
       /\ this._capacity = pre._capacity
       /\ (0 < op.args[1] /\ op.args[1] < size(pre))
            => /\ OrderKeys(this) = Newest(OrderKeys(pre), op.args[1])
               /\ ValuesOf(this) = Restrict(ValuesOf(pre), OrderKeys(this))
               /\ size(this) = op.args[1]
       /\ op.args[1] >= size(pre)
            => /\ this._cache = pre._cache
               /\ this._order = pre._order
       /\ (op.args[1] = 0 /\ size(pre) > 0)
            => /\ this._cache = EmptyMap
               /\ this._order = <<>>
               /\ this._last_accessed = Invalid

\* A shrink(2) of a cache of three entries has been observed.
C8_Witness ==
    /\ Observed("shrink")
    /\ size(pre) = 3
    /\ op.args[1] = 2
    /\ size(this) = 2

\* C9: capacity(n) ends with capacity() == n; with n < size it removes
\* entries from the oldest end until size == n, keeping the n newest in their
\* order; with n >= size it removes nothing.
C9_SetCapacity ==
    op.name = "capacity"
    => /\ ~this.ub
       /\ this._capacity = op.args[1]
       /\ op.args[1] < size(pre)
            => /\ OrderKeys(this) = Newest(OrderKeys(pre), op.args[1])
               /\ ValuesOf(this) = Restrict(ValuesOf(pre), OrderKeys(this))
               /\ size(this) = op.args[1]
       /\ op.args[1] >= size(pre)
            => /\ this._cache = pre._cache
               /\ this._order = pre._order

\* A capacity(1) of a cache holding three entries has been observed.
C9_Witness ==
    /\ Observed("capacity")
    /\ size(pre) = 3
    /\ op.args[1] = 1
    /\ size(this) = 1

\* C10: clear() leaves the hash index and the recency sequence empty, the
\* last-accessed slot invalid and the capacity unchanged.
C10_Clear ==
    op.name = "clear"
    => /\ ~this.ub
       /\ this._cache = EmptyMap
       /\ this._order = <<>>
       /\ size(this) = 0
       /\ this._last_accessed = Invalid
       /\ this._capacity = pre._capacity

\* A clear() of a cache of three entries with a populated last-accessed slot
\* has been observed.
C10_Witness ==
    /\ Observed("clear")
    /\ size(pre) = 3
    /\ pre._last_accessed # Invalid

\* C11: lookup(key) of an absent key fails with KeyNotFound and leaves the
\* contents, the recency order, the size, the capacity and the last-accessed
\* slot as they were; lookup(key) of a present key returns the value stored
\* for it and does not fail, whatever the slot holds.
C11_Lookup ==
    op.name = "lookup"
    => /\ ~this.ub
       /\ IF op.args[1] \in DOMAIN pre._cache
          THEN op.ret = <<"value", ValuesOf(pre)[op.args[1]]>>
          ELSE /\ op.ret = <<"KeyNotFound">>
               /\ this._cache = pre._cache
               /\ this._order = pre._order
               /\ size(this) = size(pre)
               /\ this._capacity = pre._capacity
               /\ this._last_accessed = pre._last_accessed

\* A lookup() of a present key while the slot is invalid, after an erase of
\* the newest of two entries, that returns the second of two values.
C11_Witness ==
    /\ Observed("lookup")
    /\ size(pre) = 1
    /\ pre._last_accessed = Invalid
    /\ op.ret = <<"value", 2>>

\* C12: this == other exactly when the two caches hold the same keys with the
\* same values and their recency sequences list the keys in the same order;
\* the capacities, the last-accessed slots and the statistics attachment have
\* no part in it.
C12_Equality ==
    op.name = "equals"
    => op.ret = <<IF op.args[2]
                  THEN TRUE
                  ELSE /\ ValuesOf(pre) = ValuesOf(op.args[1])
                       /\ OrderKeys(pre) = OrderKeys(op.args[1])>>

\* Two caches with the same two pairs in the same order compare equal while
\* their capacities differ, their slots name different keys and one of them
\* is monitored.
C12_Witness ==
    /\ op.name = "equals"
    /\ ~op.args[2]
    /\ size(pre) = 2
    /\ op.ret = <<TRUE>>
    /\ pre._capacity # op.args[1]._capacity
    /\ pre._last_accessed.key # op.args[1]._last_accessed.key
    /\ is_monitoring(pre) /\ ~is_monitoring(op.args[1])

\* C13: while a statistics object is attached, each contains(key), lookup(key)
\* and find(key) registers exactly one event, for key: a hit if key is
\* present and a miss if it is absent, on the fast path as on the hash path.
C13_OneEventPerLookup ==
    op.name \in {"contains", "lookup", "find"} /\ is_monitoring(pre)
    => /\ ~this.ub
       /\ is_monitoring(this)
       /\ this._stats.key = op.args[1]
       /\ IF op.args[1] \in DOMAIN pre._cache
          THEN /\ this._stats.hits = pre._stats.hits + 1
               /\ this._stats.misses = pre._stats.misses
          ELSE /\ this._stats.hits = pre._stats.hits
               /\ this._stats.misses = pre._stats.misses + 1

\* A monitored contains() served by the fast path, after a miss of another
\* key: the second event.
C13_Witness ==
    /\ Observed("contains")
    /\ is_monitoring(pre)
    /\ LastAccessedIs(pre, op.args[1])
    /\ pre._stats.misses = 1
    /\ this._stats.hits = 1

\* C14: with a statistics object attached, the hits and the misses together
\* are as many as the calls of lookup and contains (and of find, which
\* registers one event as they do) and the inserts of a present key made
\* since it was attached.
C14_EventsEqualCalls ==
    is_monitoring(this) => this._stats.hits + this._stats.misses = calls

\* C15: a cache of capacity 0 evicts the front of the recency sequence in
\* every insert of a new key, the first one included, before it inserts: no
\* insert fails, and the cache never holds more than the entry inserted last.
C15_CapacityZero ==
    this._capacity = 0
    => /\ ~this.ub
       /\ size(this) <= 1
       /\ op.name = "insert" => OrderKeys(this) = <<op.args[1]>>

\* C16: after the copy construction or the copy assignment of a cache whose
\* last-accessed slot has a referent, the slot of the copy is invalid or
\* designates an entry of the copy's own hash index, never an entry of the
\* source.
C16_CopySlotNotStale ==
    op.name \in {"copy_construct", "copy_assign"} /\ pre._last_accessed # Invalid
    => \/ other._last_accessed = Invalid
       \/ /\ other._last_accessed.arena = other.arena
          /\ other._last_accessed.key \in DOMAIN other._cache

\* The slot of a cache is invalid or designates an entry of its own hash index.
SlotInOwnIndex(c) ==
    \/ c._last_accessed = Invalid
    \/ /\ c._last_accessed.arena = c.arena
       /\ c._last_accessed.key \in DOMAIN c._cache

\* C17: this.swap(other) gives this the recency sequence, the hash index, the
\* slot and the capacity that other had and gives other those of this; a
\* second swap restores both; and after the swap each slot that has a
\* referent names a key present in its own instance.
C17_Swap ==
    op.name = "swap"
    => /\ this._order = op.args[1]._order
       /\ this._cache = op.args[1]._cache
       /\ this._last_accessed = op.args[1]._last_accessed
       /\ this._capacity = op.args[1]._capacity
       /\ other._order = pre._order
       /\ other._cache = pre._cache
       /\ other._last_accessed = pre._last_accessed
       /\ other._capacity = pre._capacity
       /\ swap(this, other) = <<pre, op.args[1]>>
       /\ SlotInOwnIndex(this)
       /\ SlotInOwnIndex(other)

\* A swap of two caches of different sizes and capacities whose slots name
\* different keys.
C17_Witness ==
    /\ op.name = "swap"
    /\ size(pre) = 2
    /\ size(op.args[1]) = 1
    /\ pre._capacity # op.args[1]._capacity
    /\ pre._last_accessed # Invalid
    /\ op.args[1]._last_accessed # Invalid
    /\ pre._last_accessed.key \notin DOMAIN op.args[1]._cache

\* C18: erase(iterator), for either view, with the end iterator or an expired
\* iterator returns false, changes nothing and does not fail; with an
\* iterator to a present entry it removes that entry from the hash index
\* and the recency sequence and returns true.
C18_EraseIterator ==
    op.name \in {"erase_unordered", "erase_ordered"}
    => /\ ~this.ub
       /\ IF op.args[1] \in DOMAIN pre._cache
          THEN /\ op.ret = <<TRUE>>
               /\ this._cache = MapErase(pre._cache, op.args[1])
               /\ OrderKeys(this) = Without(OrderKeys(pre), op.args[1])
          ELSE /\ op.ret = <<FALSE>>
               /\ this = pre

\* C19: in every reachable state the last-accessed slot is invalid or names
\* a key present in the hash index, so every operation that removes the
\* slot's entry leaves the slot invalid or on a present entry; and after an
\* insert(key, value) that returned the slot names key.
C19_SlotNamesPresentKey ==
    /\ SlotInOwnIndex(this)
    /\ Observed("insert") => LastAccessedIs(this, op.args[1])

\* An insert into a full cache of two that evicts the entry the slot named.
C19_Witness ==
    /\ Observed("insert")
    /\ size(pre) = 2
    /\ is_full(pre)
    /\ LastAccessedIs(pre, Head(OrderKeys(pre)))
    /\ Head(OrderKeys(pre)) \notin DOMAIN this._cache
    /\ op.ret[1]

\* A cache without its statistics object.
Unmonitored(c) == [c EXCEPT !._stats = NoStatistics]

\* C20: the statistics object does not alter what the cache does.  A call on
\* a cache, monitored or not, returns what the same call returns on the same
\* cache without statistics and leaves the same contents, recency order,
\* capacity and slot; monitor() and stop_monitoring() change none of them.
\* So a monitored and an unmonitored run of the same calls agree call by call.
C20_MonitoringIsTransparent ==
    op.name # "none"
    => [c |-> Unmonitored(this), ret |-> op.ret]
          \in {[c |-> Unmonitored(o.c), ret |-> o.ret] :
                    o \in Apply(op.name, op.args, Unmonitored(pre))}

\* A monitored lookup(), after one registered hit, that returns the second
\* of two values by the hash path.
C20_Witness ==
    /\ Observed("lookup")
    /\ is_monitoring(pre)
    /\ pre._stats.hits = 1
    /\ ~LastAccessedIs(pre, op.args[1])
    /\ op.ret = <<"value", 2>>

C22_AbstractSlotInvalidated ==
    /\ ~SlotIsStale(this)
    /\ Observed("clear") => this._last_accessed = Invalid
    /\ (Observed("_erase_lru") /\ pre._order # <<>>
          /\ LastAccessedIs(pre, Head(OrderKeys(pre))))
       => this._last_accessed = Invalid

\* C23: a copy is independent of its source.  After the copy construction or
\* copy assignment each entry's recency handle in the copy designates a
\* node of the copy's own recency sequence; a call on the copy (insert,
\* re-insert, erase, eviction, clear) returns and leaves the source's hash
\* index, recency sequence and size as they were; and a call on the source
\* leaves the copy as it was.
C23_CopyIsIndependent ==
    /\ (other # OtherCache(0) /\ op = NoOp)
       => Handles(other) \subseteq NodeIdsOf(other._order)
    /\ op.name \in {"insert", "erase", "clear"}
       => /\ ~other.ub
          /\ this._cache = pre._cache
          /\ this._order = pre._order
          /\ size(this) = size(pre)
    /\ op.name = "source" => other = op.args[1]

\* C24: the last-accessed fast path cannot be told from outside.  For every
\* call of insert, contains, lookup, erase, clear, shrink or capacity in every
\* reachable state, what the call returned and the contents, recency order and
\* size it left are an outcome of the same call on a cache without the slot,
\* and the two caches have the same outcomes.  The cache without the slot is
\* then in the state the next call starts from, so this holds along every
\* sequence of calls.
C24_FastPathIsTransparent ==
    op.name \in {"insert", "contains", "lookup", "erase", "clear", "shrink", "capacity"}
    => /\ Visible([c |-> this, ret |-> op.ret])
            \in {Visible(o) : o \in Reference(op.name, op.args, pre)}
       /\ {Visible(o) : o \in WithSlot(op.name, op.args, pre)}
            = {Visible(o) : o \in Reference(op.name, op.args, pre)}

\* An erase served by the slot: the key erased is the one the slot named, it
\* was not the oldest, and another entry stays.
C24_Witness ==
    /\ Observed("erase")
    /\ LastAccessedIs(pre, op.args[1])
    /\ size(pre) = 3
    /\ Head(OrderKeys(pre)) # op.args[1]
    /\ op.ret = <<TRUE>>
    /\ size(this) = 2

\* C25: in every reachable state space_left() is the number
\* capacity() - size(), which is not negative, so that the subtraction in
\* size_t does not wrap; it is 0 exactly when is_full(); and an insert of a
\* new key evicts an entry exactly when is_full() was true before it.  The
\* same for space_left() and is_full() of AbstractCache.
C25_SpaceLeft ==
    /\ this._capacity - size(this) >= 0
    /\ space_left(this) = this._capacity - size(this)
    /\ abstract_space_left(this) = this._capacity - size(this)
    /\ (space_left(this) = 0) <=> is_full(this)
    /\ (abstract_space_left(this) = 0) <=> abstract_is_full(this)
    /\ (Observed("insert") /\ op.args[1] \notin DOMAIN pre._cache)
       => (is_full(pre) <=> ~(DOMAIN pre._cache \subseteq DOMAIN this._cache))

====
